---- MODULE Spec2Model ----
(***************************************************************************)
(* ez-infra-tools: the secrets store (sops_age.py), the release            *)
(* orchestrator (k8s/deploy.py) and the CLI commands that call them        *)
(* (cli.py), as a state machine over the files they create and delete.     *)
(*                                                                         *)
(* A Python string is a sequence of tokens, so that an f-string is a       *)
(* concatenation and two paths are equal exactly when their texts are.     *)
(* The hyphen is always a token of its own.  None is a reserved            *)
(* one-token sequence that no string of the model contains.                *)
(***************************************************************************)
EXTENDS Integers, Sequences, FiniteSets, TLC

\* How many times the key generator may succeed in one behaviour.
MaxKeygen == 2

\* How many invocations run side by side.
MaxProcs == 2

None == <<"<None>">>
Truthy(s) == s # None /\ s # <<>>

\* The projects that are deployed, and the one among them whose secrets are
\* set up.
Projects == {<<"api">>, <<"api", "-", "prod">>}
SecretsProjects == {<<"api", "-", "prod">>}
Environments == {None, <<>>, <<"prod">>}
Namespaces == {None, <<>>, <<"team">>}
KubectlStdouts == {<<>>, <<"\n">>, <<"staging", "\n">>}
Whitespace == {" ", "\n"}

KeygenOutcomes == {"stderr", "fileonly", "nopub", "fail", "missing"}
ToolOutcomes == {"ok", "fail", "missing"}
DecryptOutcomes == {"ok", "badyaml", "fail", "missing"}
WriteOutcomes == {"ok", "oserror"}
\* The write of the file under /tmp: open() can fail ("oserror"), or open()
\* creates or truncates the file and a write to it fails ("partial").
TmpWriteOutcomes == {"ok", "oserror", "partial"}

-----------------------------------------------------------------------------
(* Strings and paths *)

RECURSIVE LStrip(_)
LStrip(s) == IF s # <<>> /\ Head(s) \in Whitespace THEN LStrip(Tail(s)) ELSE s

RECURSIVE RStrip(_)
RStrip(s) ==
  IF s # <<>> /\ s[Len(s)] \in Whitespace THEN RStrip(SubSeq(s, 1, Len(s) - 1)) ELSE s

\* str.strip()
Strip(s) == RStrip(LStrip(s))

\* output_file without the project in its name.
TempOutputFileNoProject(project) == <<"/tmp/", "secret-values.yaml">>

\* make_temp_secrets_yaml's output_file
TempOutputFile(project) ==
  IF Truthy(project)
  THEN <<"/tmp/">> \o project \o <<"-", "secret-values.yaml">>
  ELSE <<"/tmp/", "secret-values.yaml">>

\* deploy_helm_chart's secrets_file
DeploySecretsFile(project, environment) ==
  <<"/tmp/">> \o project \o <<"-">> \o environment \o <<"-", "secret-values.yaml">>

\* release_name joined without its hyphen.
ReleaseNameMissingHyphen(project, environment) ==
  IF Truthy(environment) THEN project \o environment ELSE project

\* release_name in deploy_helm_chart
DeployReleaseName(project, environment) ==
  IF Truthy(environment) THEN project \o <<"-">> \o environment ELSE project

\* release_name in undeploy_helm_chart
UndeployReleaseName(project, environment) ==
  IF Truthy(environment) THEN project \o <<"-">> \o environment ELSE project

\* The keyword parameters each function declares.
Params ==
  [ generate_age_key |-> {"project"},
    create_sops_config |-> {"public_key", "project"},
    create_initial_secrets_file |-> {"project"},
    setup_secrets |-> {"project"},
    edit_secrets |-> {"project"},
    decrypt_secrets |-> {"output_format", "key", "project"},
    make_temp_secrets_yaml |-> {"project"},
    deploy_helm_chart |-> {"project", "environment", "namespace"},
    undeploy_helm_chart |-> {"project", "environment", "namespace"} ]

\* A Python call binds when every keyword it passes is a declared parameter;
\* otherwise the call raises TypeError before the function body runs.
Binds(fn, kwargs) == kwargs \subseteq Params[fn]

-----------------------------------------------------------------------------
(* The files of the model *)

VARIABLES
  keyFile,      \* per project: <project>/secrets/age-key.txt
  sopsConfig,   \* per project: <project>/.sops.yaml, 0 when absent, else the key it binds
  secretsFile,  \* per project: <project>/secrets/secrets.yaml
  tmpFiles,     \* the files that exist under /tmp
  nextKey,      \* how many keys the key generator has produced
  firstSetup,   \* per project: the public key of the first setup_secrets that returned True
  op,           \* the last operation: its call, its outcome, what it did in order
  procs         \* the invocations that run side by side, each at its own line

vars == <<keyFile, sopsConfig, secretsFile, tmpFiles, nextKey, firstSetup, op, procs>>

NoKeyFile == [exists |-> FALSE, pub |-> 0, mode |-> "none"]

World == [key |-> keyFile, cfg |-> sopsConfig, sec |-> secretsFile,
          tmp |-> tmpFiles, nk |-> nextKey]

\* What a call gives back: the files after it, its return value (ret), the
\* exception that left it uncaught (exc), the public key it yields (pub) and
\* the things it did, in order (ev).
Result(w, ret, exc, pub, ev) ==
  [w |-> w, ret |-> ret, exc |-> exc, pub |-> pub, ev |-> ev]

Has(ev, x) == \E i \in 1..Len(ev) : ev[i] = x

-----------------------------------------------------------------------------
(* secrets/sops_age.py *)

\* check_dependencies: both version probes run; every failure of a probe is
\* caught and makes the tool "missing".
CheckDependencies(w, sopsV, ageV) ==
  LET probes == <<"run:sops-version", "run:age-version">> IN
  IF sopsV = "ok" /\ ageV = "ok"
  THEN Result(w, "True", "none", 0, probes \o <<"info:deps-ok">>)
  ELSE Result(w, "False", "none", 0, probes \o <<"error">>)

\* generate_age_key without its look at the file that exists.
GenerateAgeKeyNoExistsCheck(w, project, kg) ==
  LET k == w.nk + 1
      written == [exists |-> TRUE, pub |-> IF kg = "nopub" THEN 0 ELSE k, mode |-> "0600"]
      w2 == [w EXCEPT !.key[project] = written, !.nk = k]
      made == <<"run:age-keygen", "write:key", "chmod:key", "warn:backup">>
  IN CASE kg = "missing" -> Result(w, "raised", "FileNotFoundError", 0, <<"run:age-keygen">>)
       [] kg \in {"fail", "none"} -> Result(w, "None", "none", 0, <<"run:age-keygen", "error">>)
       [] kg = "nopub" -> Result(w2, "None", "none", 0, made)
       [] OTHER -> Result(w2, "key", "none", k, made)

\* generate_age_key without its os.chmod: the key file keeps the mode that
\* age-keygen and the umask gave it.
GenerateAgeKeyNoChmod(w, project, kg) ==
  LET f == w.key[project] IN
  IF f.exists /\ f.pub # 0
  THEN Result(w, "key", "none", f.pub, <<"read:key">>)
  ELSE
    LET before == IF f.exists THEN <<"read:key">> ELSE <<>>
        k == w.nk + 1
        written == [exists |-> TRUE, pub |-> IF kg = "nopub" THEN 0 ELSE k,
                    mode |-> "umask"]
        w2 == [w EXCEPT !.key[project] = written, !.nk = k]
        made == before \o <<"run:age-keygen", "write:key", "warn:backup">>
    IN CASE kg = "missing" ->
              Result(w, "raised", "FileNotFoundError", 0, before \o <<"run:age-keygen">>)
         [] kg = "fail" ->
              Result(w, "None", "none", 0, before \o <<"run:age-keygen", "error">>)
         [] kg = "nopub" -> Result(w2, "None", "none", 0, made)
         [] OTHER -> Result(w2, "key", "none", k, made)

\* generate_age_key.  An existing key file is read for its "# public key:"
\* line; when the loop ends without finding one, no return is reached and the
\* function goes on to generate.  kg is what age-keygen does: it writes the
\* file and prints the public key on stderr ("stderr"), writes the file with
\* its marker line only ("fileonly"), writes a file without the line
\* ("nopub"), exits non-zero ("fail") or cannot be started ("missing").
GenerateAgeKey(w, project, kg) ==
  LET f == w.key[project] IN
  IF f.exists /\ f.pub # 0
  THEN Result(w, "key", "none", f.pub, <<"read:key">>)
  ELSE
    LET before == IF f.exists THEN <<"read:key">> ELSE <<>>
        k == w.nk + 1
        written == [exists |-> TRUE, pub |-> IF kg = "nopub" THEN 0 ELSE k,
                    mode |-> "0600"]
        w2 == [w EXCEPT !.key[project] = written, !.nk = k]
        made == before \o <<"run:age-keygen", "write:key", "chmod:key", "warn:backup">>
    IN CASE kg = "missing" ->
              Result(w, "raised", "FileNotFoundError", 0, before \o <<"run:age-keygen">>)
         [] kg = "fail" ->
              Result(w, "None", "none", 0, before \o <<"run:age-keygen", "error">>)
         [] kg = "nopub" -> Result(w2, "None", "none", 0, made)
         [] OTHER -> Result(w2, "key", "none", k, made)

\* create_sops_config that writes the policy file also when one exists.
CreateSopsConfigOverwrite(w, public_key, project, wr) ==
  IF wr = "ok"
  THEN Result([w EXCEPT !.cfg[project] = public_key], "True", "none", 0, <<"write:policy">>)
  ELSE Result(w, "False", "none", 0, <<"error">>)

\* create_sops_config
CreateSopsConfig(w, public_key, project, wr) ==
  IF w.cfg[project] # 0
  THEN Result(w, "True", "none", 0, <<>>)
  ELSE IF wr = "ok"
       THEN Result([w EXCEPT !.cfg[project] = public_key], "True", "none", 0,
                   <<"write:policy">>)
       ELSE Result(w, "False", "none", 0, <<"error">>)

\* create_initial_secrets_file.  enc is what "sops --encrypt --in-place" does.
\* Only CalledProcessError (a non-zero exit) reaches the handler that unlinks
\* the plaintext; a missing binary is FileNotFoundError, which the generic
\* handler catches without unlinking.
CreateInitialSecretsFile(w, project, wr, enc) ==
  IF w.sec[project] # "absent"
  THEN Result(w, "True", "none", 0, <<>>)
  ELSE IF wr # "ok"
       THEN Result(w, "False", "none", 0, <<"error">>)
       ELSE
         LET plain == [w EXCEPT !.sec[project] = "plaintext"]
             start == <<"write:secrets", "run:sops-encrypt">>
         IN CASE enc = "ok" ->
                   Result([w EXCEPT !.sec[project] = "ciphertext"], "True", "none", 0, start)
              [] enc = "fail" ->
                   Result(w, "False", "none", 0, start \o <<"error", "unlink:secrets">>)
              [] OTHER -> Result(plain, "False", "none", 0, start \o <<"error">>)

\* setup_secrets that goes on to the secrets file after create_sops_config
\* returned False.
SetupSecretsIgnoresPolicyFailure(w, project, sopsV, ageV, kg, wrCfg, wrSec, enc) ==
  LET deps == CheckDependencies(w, sopsV, ageV) IN
  IF deps.ret # "True" THEN deps
  ELSE
    LET key == GenerateAgeKey(deps.w, project, kg)
        ev1 == deps.ev \o key.ev
    IN
    IF key.exc # "none" THEN Result(key.w, "raised", key.exc, 0, ev1)
    ELSE IF key.pub = 0 THEN Result(key.w, "False", "none", 0, ev1 \o <<"error">>)
    ELSE
      LET cfg == CreateSopsConfig(key.w, key.pub, project, wrCfg)
          ev2 == ev1 \o cfg.ev
          sec == CreateInitialSecretsFile(cfg.w, project, wrSec, enc)
      IN Result(sec.w, sec.ret, "none", key.pub,
                ev2 \o sec.ev \o (IF sec.ret = "True" THEN <<"echo:backup-step">> ELSE <<>>))

\* setup_secrets: dependency check, key, policy, store; the first step that
\* fails ends it.  An exception of generate_age_key passes through uncaught.
\* A setup that succeeds ends with its "Next steps", the first of which is to
\* back up the age key.
SetupSecrets(w, project, sopsV, ageV, kg, wrCfg, wrSec, enc) ==
  LET deps == CheckDependencies(w, sopsV, ageV) IN
  IF deps.ret # "True" THEN deps
  ELSE
    LET key == GenerateAgeKey(deps.w, project, kg)
        ev1 == deps.ev \o key.ev
    IN
    IF key.exc # "none" THEN Result(key.w, "raised", key.exc, 0, ev1)
    ELSE IF key.pub = 0 THEN Result(key.w, "False", "none", 0, ev1 \o <<"error">>)
    ELSE
      LET cfg == CreateSopsConfig(key.w, key.pub, project, wrCfg)
          ev2 == ev1 \o cfg.ev
      IN
      IF cfg.ret # "True" THEN Result(cfg.w, "False", "none", key.pub, ev2)
      ELSE
        LET sec == CreateInitialSecretsFile(cfg.w, project, wrSec, enc) IN
        Result(sec.w, sec.ret, "none", key.pub,
               ev2 \o sec.ev \o (IF sec.ret = "True" THEN <<"echo:backup-step">> ELSE <<>>))

\* make_temp_secrets_yaml without its look for the key file.
MakeTempSecretsYamlNoKeyCheck(w, project, dec, wr) ==
  IF w.sec[project] = "absent" THEN Result(w, "False", "none", 0, <<"error">>)
  ELSE
    CASE dec = "ok" /\ wr = "ok" ->
           Result([w EXCEPT !.tmp = @ \cup {TempOutputFile(project)}], "True", "none", 0,
                  <<"run:sops-decrypt", "write:tmp">>)
      [] dec = "ok" /\ wr = "partial" ->
           Result([w EXCEPT !.tmp = @ \cup {TempOutputFile(project)}], "False", "none", 0,
                  <<"run:sops-decrypt", "write:tmp", "error">>)
      [] OTHER -> Result(w, "False", "none", 0, <<"run:sops-decrypt", "error">>)

\* make_temp_secrets_yaml.  dec is what "sops --decrypt" and the YAML parse of
\* its output do, wr what the write of output_file does.  No handler unlinks
\* the file that a failed write leaves.
MakeTempSecretsYaml(w, project, dec, wr) ==
  IF w.sec[project] = "absent" THEN Result(w, "False", "none", 0, <<"error">>)
  ELSE IF ~w.key[project].exists THEN Result(w, "False", "none", 0, <<"error">>)
  ELSE
    CASE dec = "ok" /\ wr = "ok" ->
           Result([w EXCEPT !.tmp = @ \cup {TempOutputFile(project)}], "True", "none", 0,
                  <<"run:sops-decrypt", "write:tmp">>)
      [] dec = "ok" /\ wr = "partial" ->
           Result([w EXCEPT !.tmp = @ \cup {TempOutputFile(project)}], "False", "none", 0,
                  <<"run:sops-decrypt", "write:tmp", "error">>)
      [] OTHER -> Result(w, "False", "none", 0, <<"run:sops-decrypt", "error">>)

\* edit_secrets.  ed is what the interactive "sops <file>" does; only a
\* non-zero exit is caught.
EditSecrets(w, project, ed) ==
  IF w.sec[project] = "absent" THEN Result(w, "False", "none", 0, <<"error">>)
  ELSE IF ~w.key[project].exists THEN Result(w, "False", "none", 0, <<"error">>)
  ELSE CASE ed = "ok" -> Result(w, "True", "none", 0, <<"run:sops-edit">>)
         [] ed = "fail" -> Result(w, "False", "none", 0, <<"run:sops-edit", "error">>)
         [] OTHER -> Result(w, "raised", "FileNotFoundError", 0, <<"run:sops-edit">>)

\* A decrypted document as yaml.safe_load gives it: a dict, here the sequence
\* of its entries in key order.  An entry has a key k (a string) and is a
\* leaf with the scalar v, or has the nested dict sub.
Leaf(k, v) == [k |-> k, leaf |-> TRUE, v |-> v, sub |-> <<>>]
Nested(k, sub) == [k |-> k, leaf |-> FALSE, v |-> "", sub |-> sub]

Documents ==
  { <<Nested(<<"database">>, <<Leaf(<<"username">>, "u"), Leaf(<<"password">>, "p")>>)>>,
    <<Leaf(<<"token">>, "t"), Nested(<<"database">>, <<Leaf(<<"username">>, "u")>>)>>,
    <<Nested(<<"a">>, <<Leaf(<<"b">>, "1")>>), Leaf(<<"a", "_", "b">>, "2")>>,
    <<Leaf(<<"a", "_", "b">>, "2"), Nested(<<"a">>, <<Leaf(<<"b">>, "1")>>),
      Leaf(<<"c">>, "3")>> }

RequestedKeys ==
  {None, <<"token">>, <<"database">>, <<"database", ".", "username">>,
   <<"database", "_", "username">>, <<"missing">>}
OutputFormats == {"env", "yaml", "json"}

\* str.upper(), on the tokens the keys are made of.
UpperToken ==
  [t \in {"database", "username", "password", "token", "a", "b", "c", "_"} |->
     CASE t = "database" -> "DATABASE" [] t = "username" -> "USERNAME"
       [] t = "password" -> "PASSWORD" [] t = "token" -> "TOKEN"
       [] t = "a" -> "A" [] t = "b" -> "B" [] t = "c" -> "C" [] OTHER -> "_"]
\* str.upper() that leaves the string as it is.
UpperUnchanged(s) == s

Upper(s) == [i \in 1..Len(s) |-> UpperToken[s[i]]]

\* dict(items): a key keeps the place of its first item and takes the value
\* of its last.
RECURSIVE DictOf(_)
DictOf(items) ==
  IF items = <<>> THEN <<>>
  ELSE LET acc == DictOf(SubSeq(items, 1, Len(items) - 1))
           it == items[Len(items)]
       IN IF \E i \in 1..Len(acc) : acc[i].k = it.k
          THEN [i \in 1..Len(acc) |-> IF acc[i].k = it.k THEN it ELSE acc[i]]
          ELSE Append(acc, it)

\* decrypt_secrets.flatten_dict, with sep = '_': the items of the dict it
\* returns, in order.
RECURSIVE FlattenItems(_, _)
FlattenItems(d, parent_key) ==
  IF d = <<>> THEN <<>>
  ELSE LET e == Head(d)
           new_key == IF parent_key # <<>> THEN parent_key \o <<"_">> \o e.k ELSE e.k
       IN (IF ~e.leaf THEN DictOf(FlattenItems(e.sub, new_key))
           ELSE <<[k |-> Upper(new_key), v |-> e.v]>>)
          \o FlattenItems(Tail(d), parent_key)
flatten_dict(d) == DictOf(FlattenItems(d, <<>>))

\* What click.echo prints: the whole document, the value of one key, or one
\* "export NAME='value'" line.
EchoDocument == [kind |-> "document", name |-> <<>>, value |-> ""]
EchoValue(e) == [kind |-> "value", name |-> <<>>, value |-> IF e.leaf THEN e.v ELSE "<dict>"]
EchoExport(it) == [kind |-> "export", name |-> it.k, value |-> it.v]

\* What a call of decrypt_secrets gives back: a Result and the lines printed.
Printed(r, out) ==
  [w |-> r.w, ret |-> r.ret, exc |-> r.exc, pub |-> r.pub, ev |-> r.ev, out |-> out]

\* decrypt_secrets.  dec is what "sops --decrypt" and, in the env format, the
\* YAML parse of its output do, doc the document they give, jsonDec what the
\* second sops run of the json format does.  The requested key is looked at
\* in the env format only, and there with "key in data", among the top-level
\* keys of the document.
DecryptSecrets(w, output_format, key, project, dec, doc, jsonDec) ==
  LET failed(ev) == Printed(Result(w, "False", "none", 0, ev), <<>>)
      done(ev, out) == Printed(Result(w, "True", "none", 0, ev), out)
  IN
  IF w.sec[project] = "absent" THEN failed(<<"error">>)
  ELSE IF ~w.key[project].exists THEN failed(<<"error">>)
  ELSE
    IF dec \in {"fail", "missing"}
    THEN failed(<<"run:sops-decrypt", "error">>)
    ELSE
      CASE output_format = "yaml" ->
             done(<<"run:sops-decrypt", "echo:document">>, <<EchoDocument>>)
        [] output_format = "json" ->
             IF jsonDec = "ok"
             THEN done(<<"run:sops-decrypt", "run:sops-decrypt-json", "echo:document">>,
                       <<EchoDocument>>)
             ELSE failed(<<"run:sops-decrypt", "run:sops-decrypt-json", "error">>)
        [] OTHER ->
             IF dec = "badyaml"
             THEN failed(<<"run:sops-decrypt", "error">>)
             ELSE IF Truthy(key)
                  THEN IF \E i \in 1..Len(doc) : doc[i].k = key
                       THEN LET i == CHOOSE i \in 1..Len(doc) : doc[i].k = key
                            IN done(<<"run:sops-decrypt", "echo:value">>, <<EchoValue(doc[i])>>)
                       ELSE failed(<<"run:sops-decrypt", "error">>)
                  ELSE LET flat_data == flatten_dict(doc)
                       IN done(<<"run:sops-decrypt", "echo:exports">>,
                               [i \in 1..Len(flat_data) |-> EchoExport(flat_data[i])])

-----------------------------------------------------------------------------
(* k8s/deploy.py *)

DefaultNamespace == <<"default">>

\* The namespace of deploy_helm_chart without the fallback for an empty answer.
DeployNamespaceNoFallback(namespace, kc, kout) ==
  IF namespace # None THEN [ns |-> namespace, exc |-> "none", ev |-> <<>>]
  ELSE CASE kc = "ok" -> [ns |-> Strip(kout), exc |-> "none", ev |-> <<"run:kubectl">>]
         [] kc = "fail" -> [ns |-> DefaultNamespace, exc |-> "none", ev |-> <<"run:kubectl">>]
         [] OTHER -> [ns |-> None, exc |-> "FileNotFoundError", ev |-> <<"run:kubectl">>]

\* The namespace of deploy_helm_chart: the one given, else kubectl's current
\* one, stripped, else "default".  Only a non-zero exit of kubectl is caught.
DeployNamespace(namespace, kc, kout) ==
  IF namespace # None THEN [ns |-> namespace, exc |-> "none", ev |-> <<>>]
  ELSE CASE kc = "ok" ->
              [ns |-> IF Strip(kout) = <<>> THEN DefaultNamespace ELSE Strip(kout),
               exc |-> "none", ev |-> <<"run:kubectl">>]
         [] kc = "fail" -> [ns |-> DefaultNamespace, exc |-> "none", ev |-> <<"run:kubectl">>]
         [] OTHER -> [ns |-> None, exc |-> "FileNotFoundError", ev |-> <<"run:kubectl">>]

\* The same lines in undeploy_helm_chart.
UndeployNamespace(namespace, kc, kout) ==
  IF namespace # None THEN [ns |-> namespace, exc |-> "none", ev |-> <<>>]
  ELSE CASE kc = "ok" ->
              [ns |-> IF Strip(kout) = <<>> THEN DefaultNamespace ELSE Strip(kout),
               exc |-> "none", ev |-> <<"run:kubectl">>]
         [] kc = "fail" -> [ns |-> DefaultNamespace, exc |-> "none", ev |-> <<"run:kubectl">>]
         [] OTHER -> [ns |-> None, exc |-> "FileNotFoundError", ev |-> <<"run:kubectl">>]

\* The values files of a project, as the paths handed to helm with -f.
BaseValues(project) == <<"cwd/">> \o project \o <<"/helm/values.yaml">>
EnvValues(project, environment) ==
  <<"cwd/">> \o project \o <<"/environments/">> \o environment \o <<"/values.yaml">>

\* The helm command line: the verb, the release name, the namespace and the
\* values files after -f, in order.
NoCmd == [verb |-> "none", release |-> None, namespace |-> None, layers |-> <<>>]
HelmCmd(verb, release, ns, layers) ==
  [verb |-> verb, release |-> release, namespace |-> ns, layers |-> layers]

\* What deploy and undeploy give back: a Result, what was resolved, and the
\* helm command that was run (NoCmd when none was).
Outcome(r, release, ns, layers, cmd) ==
  [w |-> r.w, ret |-> r.ret, exc |-> r.exc, pub |-> 0, ev |-> r.ev,
   release |-> release, namespace |-> ns, layers |-> layers, cmd |-> cmd]

\* The layers of deploy_helm_chart with the environment branch taken for every
\* environment, None and "" included.
DeployLayersAlwaysEnvironment(w, project, environment, files, dec, wr) ==
  LET base == IF files.base THEN <<BaseValues(project)>> ELSE <<>>
      withEnv == IF files.envValues
                 THEN base \o <<EnvValues(project, environment)>> ELSE base
      evEnv == IF files.envValues THEN <<"chdir">> ELSE <<"warn", "chdir">>
  IN [w |-> w, exc |-> "TypeError", ev |-> evEnv \o <<"chdir:back">>, layers |-> withEnv]

\* The layers of deploy_helm_chart with os.chdir(original_dir) after the try
\* block instead of in its finally.
DeployLayersNoFinally(w, project, environment, files, dec, wr) ==
  LET base == IF files.base THEN <<BaseValues(project)>> ELSE <<>> IN
  IF ~Truthy(environment)
  THEN [w |-> w, exc |-> "none", ev |-> <<>>, layers |-> base]
  ELSE
    LET withEnv == IF files.envValues
                   THEN base \o <<EnvValues(project, environment)>> ELSE base
        evEnv == IF files.envValues THEN <<"chdir">> ELSE <<"warn", "chdir">>
    IN
    IF ~Binds("make_temp_secrets_yaml", {"project", "environment"})
    THEN [w |-> w, exc |-> "TypeError", ev |-> evEnv, layers |-> withEnv]
    ELSE
      LET mt == MakeTempSecretsYaml(w, project, dec, wr)
          secrets_file == DeploySecretsFile(project, environment)
          found == mt.ret = "True" /\ secrets_file \in mt.w.tmp
      IN [w |-> mt.w, exc |-> "none",
          ev |-> evEnv \o mt.ev \o (IF found THEN <<>> ELSE <<"warn">>) \o <<"chdir:back">>,
          layers |-> IF found THEN withEnv \o <<secrets_file>> ELSE withEnv]

\* deploy_helm_chart, the layers: base values, then for a truthy environment
\* its values file and the secrets file that make_temp_secrets_yaml is called
\* to write.  The call passes project= and environment=.
DeployLayers(w, project, environment, files, dec, wr) ==
  LET base == IF files.base THEN <<BaseValues(project)>> ELSE <<>> IN
  IF ~Truthy(environment)
  THEN [w |-> w, exc |-> "none", ev |-> <<>>, layers |-> base]
  ELSE
    LET withEnv == IF files.envValues
                   THEN base \o <<EnvValues(project, environment)>> ELSE base
        evEnv == IF files.envValues THEN <<"chdir">> ELSE <<"warn", "chdir">>
    IN
    IF ~Binds("make_temp_secrets_yaml", {"project", "environment"})
    THEN [w |-> w, exc |-> "TypeError", ev |-> evEnv \o <<"chdir:back">>,
          layers |-> withEnv]
    ELSE
      LET mt == MakeTempSecretsYaml(w, project, dec, wr)
          secrets_file == DeploySecretsFile(project, environment)
          found == mt.ret = "True" /\ secrets_file \in mt.w.tmp
      IN [w |-> mt.w, exc |-> "none",
          ev |-> evEnv \o mt.ev \o (IF found THEN <<>> ELSE <<"warn">>) \o <<"chdir:back">>,
          layers |-> IF found THEN withEnv \o <<secrets_file>> ELSE withEnv]

\* deploy_helm_chart, the helm run and what follows it.  After a non-zero
\* exit the error is reported, then the secrets file is unlinked; when helm
\* cannot be started nothing is unlinked.
DeployInvoke(w, project, environment, helm, unl) ==
  LET secrets_file == DeploySecretsFile(project, environment)
      cleanup == Truthy(environment) /\ secrets_file \in w.tmp
      after == IF cleanup /\ unl = "ok" THEN [w EXCEPT !.tmp = @ \ {secrets_file}] ELSE w
  IN CASE helm = "ok" ->
            Result(after, "True", "none", 0,
                   <<"run:helm-upgrade", "echo:success">>
                   \o (IF cleanup THEN IF unl = "ok" THEN <<"unlink:tmp">>
                                       ELSE <<"unlink:tmp", "warn">>
                       ELSE <<>>))
       [] helm = "fail" ->
            Result(after, "False", "none", 0,
                   <<"run:helm-upgrade", "error">>
                   \o (IF cleanup THEN <<"unlink:tmp">> ELSE <<>>))
       [] OTHER -> Result(w, "False", "none", 0, <<"run:helm-upgrade", "error">>)

\* deploy_helm_chart without its look for the helm directory and Chart.yaml.
DeployHelmChartNoValidation(w, project, environment, namespace, files, kc, kout, dec, wr, helm, unl) ==
  LET nsr == DeployNamespace(namespace, kc, kout) IN
  IF nsr.exc # "none"
  THEN Outcome(Result(w, "raised", nsr.exc, 0, nsr.ev), None, None, <<>>, NoCmd)
  ELSE
    LET release_name == DeployReleaseName(project, environment)
        lay == DeployLayers(w, project, environment, files, dec, wr)
    IN
    IF lay.exc # "none"
    THEN Outcome(Result(lay.w, "raised", lay.exc, 0, nsr.ev \o lay.ev),
                 release_name, nsr.ns, lay.layers, NoCmd)
    ELSE
      LET inv == DeployInvoke(lay.w, project, environment, helm, unl) IN
      Outcome(Result(inv.w, inv.ret, inv.exc, 0, nsr.ev \o lay.ev \o inv.ev),
              release_name, nsr.ns, lay.layers,
              HelmCmd("upgrade --install", release_name, nsr.ns, lay.layers))

\* deploy_helm_chart
DeployHelmChart(w, project, environment, namespace, files, kc, kout, dec, wr, helm, unl) ==
  IF ~files.helmDir \/ ~files.chart
  THEN Outcome(Result(w, "False", "none", 0, <<"error">>), None, None, <<>>, NoCmd)
  ELSE
    LET nsr == DeployNamespace(namespace, kc, kout) IN
    IF nsr.exc # "none"
    THEN Outcome(Result(w, "raised", nsr.exc, 0, nsr.ev), None, None, <<>>, NoCmd)
    ELSE
      LET release_name == DeployReleaseName(project, environment)
          lay == DeployLayers(w, project, environment, files, dec, wr)
      IN
      IF lay.exc # "none"
      THEN Outcome(Result(lay.w, "raised", lay.exc, 0, nsr.ev \o lay.ev),
                   release_name, nsr.ns, lay.layers, NoCmd)
      ELSE
        LET inv == DeployInvoke(lay.w, project, environment, helm, unl) IN
        Outcome(Result(inv.w, inv.ret, inv.exc, 0, nsr.ev \o lay.ev \o inv.ev),
                release_name, nsr.ns, lay.layers,
                HelmCmd("upgrade --install", release_name, nsr.ns, lay.layers))

\* undeploy_helm_chart
UndeployHelmChart(w, project, environment, namespace, kc, kout, helm) ==
  LET nsr == UndeployNamespace(namespace, kc, kout) IN
  IF nsr.exc # "none"
  THEN Outcome(Result(w, "raised", nsr.exc, 0, nsr.ev), None, None, <<>>, NoCmd)
  ELSE
    LET release_name == UndeployReleaseName(project, environment)
        ran == nsr.ev \o <<"run:helm-uninstall">>
        cmd == HelmCmd("uninstall", release_name, nsr.ns, <<>>)
    IN IF helm = "ok"
       THEN Outcome(Result(w, "True", "none", 0, ran \o <<"echo:success">>),
                    release_name, nsr.ns, <<>>, cmd)
       ELSE Outcome(Result(w, "False", "none", 0, ran \o <<"error">>),
                    release_name, nsr.ns, <<>>, cmd)

-----------------------------------------------------------------------------
(* cli.py: the keywords each command passes to the function it calls *)

SecretsCommands == {"setup", "edit", "decrypt", "make-temp-secrets-yaml"}

CliFunction(cmd) ==
  CASE cmd = "setup" -> "setup_secrets"
    [] cmd = "edit" -> "edit_secrets"
    [] cmd = "decrypt" -> "decrypt_secrets"
    [] OTHER -> "make_temp_secrets_yaml"

CliKeywords(cmd) ==
  CASE cmd = "decrypt" -> {"output_format", "key", "project", "environment"}
    [] OTHER -> {"project", "environment"}

\* What the process exits with: sys.exit(1) when the function returns a
\* falsy value, the interpreter's 1 when an exception is left uncaught,
\* else 0.
ExitCode(r) == IF r.exc # "none" THEN 1 ELSE IF r.ret = "True" THEN 0 ELSE 1

-----------------------------------------------------------------------------
(* The state machine *)

\* The chart as deploy finds it.  The values files are looked for only
\* beside a Chart.yaml.
NoFiles == [helmDir |-> FALSE, chart |-> FALSE, base |-> FALSE, envValues |-> FALSE]
ChartFiles ==
  {NoFiles, [NoFiles EXCEPT !.helmDir = TRUE]}
  \cup {[helmDir |-> TRUE, chart |-> TRUE, base |-> b, envValues |-> e] :
          b \in BOOLEAN, e \in BOOLEAN}

\* What a tool does is an input of the operation that runs it; a tool that
\* the operation does not reach has the one outcome "none".
KubectlChoices(namespace, reached) ==
  IF namespace = None /\ reached THEN ToolOutcomes ELSE {"none"}
StdoutChoices(kc) == IF kc = "ok" THEN KubectlStdouts ELSE {None}

\* The files of a project as an operation found them.
Snapshot(project) ==
  [key |-> keyFile[project], cfg |-> sopsConfig[project], sec |-> secretsFile[project],
   first |-> firstSetup[project]]

\* Two invocations of the tool can run at the same time, as two processes.
ProcIds == 1..MaxProcs

\* An invocation in progress: the function, its arguments, the line it is at
\* (pc), what make_temp_secrets_yaml returned to it (mt), the -f files of its
\* helm_cmd (layers), the files under /tmp that it has written, handed to
\* helm and unlinked, those among the handed ones that did not exist when
\* helm was run (missing), and whether a tool it ran failed (failed).
IdleProc ==
  [fn |-> "none", project |-> None, env |-> None, pc |-> "idle", mt |-> "none",
   layers |-> <<>>, ret |-> "none", exc |-> "none",
   written |-> {}, handed |-> {}, deleted |-> {}, missing |-> {}, failed |-> FALSE]

NoOp ==
  [name |-> "none", project |-> None, env |-> None, nsArg |-> None,
   ret |-> "none", exc |-> "none", pub |-> 0, ev |-> <<>>, exit |-> -1,
   release |-> None, namespace |-> None, layers |-> <<>>, cmd |-> NoCmd,
   files |-> NoFiles, kout |-> None, helm |-> "none",
   pre |-> [key |-> NoKeyFile, cfg |-> 0, sec |-> "absent", first |-> 0],
   tmpBefore |-> {}, kc |-> "none", tool |-> "none",
   fmt |-> "none", key |-> None, doc |-> <<>>, out |-> <<>>]

Init ==
  /\ keyFile = [p \in Projects |-> NoKeyFile]
  /\ sopsConfig = [p \in Projects |-> 0]
  /\ secretsFile = [p \in Projects |-> "absent"]
  /\ tmpFiles = {}
  /\ nextKey = 0
  /\ firstSetup = [p \in Projects |-> 0]
  /\ op = NoOp
  /\ procs = [i \in ProcIds |-> IdleProc]

\* A call by name of a function on a project.
Call(name, project) == [NoOp EXCEPT !.name = name, !.project = project]

\* The files after a call, and the record of the call.
Commit(call, r) ==
  /\ op = NoOp
  /\ keyFile' = r.w.key
  /\ sopsConfig' = r.w.cfg
  /\ secretsFile' = r.w.sec
  /\ tmpFiles' = r.w.tmp
  /\ nextKey' = r.w.nk
  /\ op' = [call EXCEPT !.ret = r.ret, !.exc = r.exc, !.pub = r.pub, !.ev = r.ev,
                        !.pre = Snapshot(call.project), !.tmpBefore = tmpFiles]
  /\ UNCHANGED procs

\* firstSetup after a setup_secrets that gave r.
NoteSetup(project, r) ==
  firstSetup' = IF r.ret = "True" /\ firstSetup[project] = 0
                THEN [firstSetup EXCEPT ![project] = r.pub] ELSE firstSetup

\* age-keygen can succeed while the model has keys left to hand out.
KeygenChoices == IF nextKey < MaxKeygen THEN KeygenOutcomes ELSE {"fail", "missing"}

\* sops encrypts only under a policy file, and decrypts only ciphertext.
EncryptChoices(project) ==
  IF sopsConfig[project] # 0 THEN ToolOutcomes ELSE {"fail", "missing"}
DecryptChoices(project) ==
  IF secretsFile[project] = "ciphertext" THEN DecryptOutcomes ELSE {"fail", "missing"}

\* The outcomes of the materialization inside a deploy: it is reached only
\* for a truthy environment, when the call binds.
MaterializeChoices(project, environment, reached, outcomes) ==
  IF reached /\ Truthy(environment) /\ Binds("make_temp_secrets_yaml", {"project", "environment"})
  THEN IF outcomes = DecryptOutcomes THEN DecryptChoices(project) ELSE outcomes
  ELSE {"none"}

CallGenerateAgeKey(project) ==
  \E kg \in KeygenChoices :
    /\ Commit(Call("generate_age_key", project), GenerateAgeKey(World, project, kg))
    /\ UNCHANGED firstSetup

CallCreateSopsConfig(project) ==
  \E public_key \in 1..MaxKeygen, wr \in WriteOutcomes :
    /\ Commit(Call("create_sops_config", project),
              [CreateSopsConfig(World, public_key, project, wr) EXCEPT !.pub = public_key])
    /\ UNCHANGED firstSetup

CallCreateInitialSecretsFile(project) ==
  \E wr \in WriteOutcomes, enc \in EncryptChoices(project) :
    /\ Commit(Call("create_initial_secrets_file", project),
              CreateInitialSecretsFile(World, project, wr, enc))
    /\ UNCHANGED firstSetup

CallSetupSecrets(project) ==
  \E sopsV \in ToolOutcomes, ageV \in ToolOutcomes :
  \E kg \in IF sopsV = "ok" /\ ageV = "ok" THEN KeygenChoices ELSE {"none"} :
  \E wrCfg \in IF kg \in {"stderr", "fileonly"} \/ keyFile[project].pub # 0
               THEN WriteOutcomes ELSE {"none"} :
  \E wrSec \in IF wrCfg = "ok" \/ (wrCfg # "none" /\ sopsConfig[project] # 0)
               THEN WriteOutcomes ELSE {"none"} :
  \E enc \in IF wrSec = "ok" THEN ToolOutcomes ELSE {"none"} :
    LET r == SetupSecrets(World, project, sopsV, ageV, kg, wrCfg, wrSec, enc) IN
    /\ Commit(Call("setup_secrets", project), r)
    /\ NoteSetup(project, r)

CallMakeTempSecretsYaml(project) ==
  \E dec \in DecryptChoices(project) :
  \E wr \in IF dec = "ok" THEN TmpWriteOutcomes ELSE {"none"} :
    /\ Commit([Call("make_temp_secrets_yaml", project) EXCEPT !.tool = dec],
              MakeTempSecretsYaml(World, project, dec, wr))
    /\ UNCHANGED firstSetup

\* sops is run by edit_secrets and decrypt_secrets only when the secrets file
\* and the key file exist.
StoreChoices(project, outcomes) ==
  IF secretsFile[project] # "absent" /\ keyFile[project].exists THEN outcomes ELSE {"none"}

CallEditSecrets(project) ==
  \E ed \in StoreChoices(project, ToolOutcomes) :
    /\ Commit([Call("edit_secrets", project) EXCEPT !.tool = ed],
              EditSecrets(World, project, ed))
    /\ UNCHANGED firstSetup

CallDecryptSecrets(project) ==
  \E output_format \in OutputFormats, key \in RequestedKeys :
  \E dec \in StoreChoices(project, DecryptChoices(project)) :
  \E doc \in IF dec = "ok" THEN Documents ELSE {<<>>} :
  \E jsonDec \in IF output_format = "json" /\ dec \in {"ok", "badyaml"}
                 THEN ToolOutcomes ELSE {"none"} :
    LET r == DecryptSecrets(World, output_format, key, project, dec, doc, jsonDec) IN
    /\ Commit([Call("decrypt_secrets", project) EXCEPT
                 !.fmt = output_format, !.key = key, !.doc = doc, !.out = r.out,
                 !.tool = dec],
              Result(r.w, r.ret, r.exc, r.pub, r.ev))
    /\ UNCHANGED firstSetup

\* "ez secrets <cmd> --project P --environment E": the command calls its
\* function with project= and environment=.
CliSecrets(cmd, project, environment) ==
  LET fn == CliFunction(cmd)
      call == [Call("ez secrets " \o cmd, project) EXCEPT !.env = environment]
  IN
  IF ~Binds(fn, CliKeywords(cmd))
  THEN /\ Commit([call EXCEPT !.exit = 1], Result(World, "raised", "TypeError", 0, <<>>))
       /\ UNCHANGED firstSetup
  ELSE
    \E sopsV \in ToolOutcomes, ageV \in ToolOutcomes, kg \in KeygenChoices,
       wrCfg \in WriteOutcomes, wrSec \in WriteOutcomes, tool \in ToolOutcomes,
       dec \in DecryptChoices(project), fmt \in OutputFormats, key \in RequestedKeys,
       doc \in Documents, wrTmp \in TmpWriteOutcomes :
      LET r == CASE cmd = "setup" ->
                      SetupSecrets(World, project, sopsV, ageV, kg, wrCfg, wrSec, tool)
                 [] cmd = "edit" -> EditSecrets(World, project, tool)
                 [] cmd = "decrypt" ->
                      LET d == DecryptSecrets(World, fmt, key, project, dec, doc, tool)
                      IN Result(d.w, d.ret, d.exc, d.pub, d.ev)
                 [] OTHER -> MakeTempSecretsYaml(World, project, dec, wrTmp)
      IN /\ Commit([call EXCEPT !.exit = ExitCode(r)], r)
         /\ IF cmd = "setup" THEN NoteSetup(project, r) ELSE UNCHANGED firstSetup

\* "ez k8s deploy --project P [--environment E] [--namespace N]".  files is
\* the chart as deploy finds it; kc, kout, dec, wr, helm and unl are what
\* kubectl, sops, the write of the secrets file, helm and unlink do.
CliK8sDeploy(project, environment, namespace) ==
  \E files \in ChartFiles :
  \E kc \in KubectlChoices(namespace, files.chart) :
  \E kout \in StdoutChoices(kc) :
  \E helm \in IF files.chart /\ kc # "missing" THEN ToolOutcomes ELSE {"none"} :
  \E dec \in MaterializeChoices(project, environment, files.chart, DecryptOutcomes) :
  \E wr \in MaterializeChoices(project, environment, files.chart, TmpWriteOutcomes) :
  \E unl \in IF Truthy(environment) /\ helm \in {"ok", "fail"}
             THEN WriteOutcomes ELSE {"ok"} :
    LET r == DeployHelmChart(World, project, environment, namespace, files,
                             kc, kout, dec, wr, helm, unl)
        call == [Call("ez k8s deploy", project) EXCEPT
                   !.env = environment, !.nsArg = namespace, !.exit = ExitCode(r),
                   !.release = r.release, !.namespace = r.namespace,
                   !.layers = r.layers, !.cmd = r.cmd, !.files = files,
                   !.kout = IF kc = "ok" THEN kout ELSE None, !.helm = helm, !.kc = kc]
    IN /\ Commit(call, r)
       /\ UNCHANGED firstSetup

\* "ez k8s undeploy --project P [--environment E] [--namespace N]"
CliK8sUndeploy(project, environment, namespace) ==
  \E kc \in KubectlChoices(namespace, TRUE) :
  \E kout \in StdoutChoices(kc) :
  \E helm \in IF kc # "missing" THEN ToolOutcomes ELSE {"none"} :
    LET r == UndeployHelmChart(World, project, environment, namespace, kc, kout, helm)
        call == [Call("ez k8s undeploy", project) EXCEPT
                   !.env = environment, !.nsArg = namespace, !.exit = ExitCode(r),
                   !.release = r.release, !.namespace = r.namespace, !.cmd = r.cmd,
                   !.kout = IF kc = "ok" THEN kout ELSE None, !.helm = helm, !.kc = kc]
    IN /\ Commit(call, r)
       /\ UNCHANGED firstSetup

\* The invocation ends: the interpreter exits, or the caller drops the value.
Exit ==
  /\ op # NoOp
  /\ op' = NoOp
  /\ UNCHANGED <<keyFile, sopsConfig, secretsFile, tmpFiles, nextKey, firstSetup, procs>>

Next ==
  \/ Exit
  \/ \E project \in SecretsProjects : CallGenerateAgeKey(project)
  \/ \E project \in SecretsProjects : CallCreateSopsConfig(project)
  \/ \E project \in SecretsProjects : CallCreateInitialSecretsFile(project)
  \/ \E project \in SecretsProjects : CallSetupSecrets(project)
  \/ \E project \in SecretsProjects : CallMakeTempSecretsYaml(project)
  \/ \E project \in SecretsProjects : CallEditSecrets(project)
  \/ \E project \in SecretsProjects : CallDecryptSecrets(project)
  \/ \E cmd \in SecretsCommands, project \in Projects, environment \in Environments :
       CliSecrets(cmd, project, environment)
  \/ \E project \in Projects, environment \in Environments, namespace \in Namespaces :
       CliK8sDeploy(project, environment, namespace)
  \/ \E project \in Projects, environment \in Environments, namespace \in Namespaces :
       CliK8sUndeploy(project, environment, namespace)

Spec == Init /\ [][Next]_vars

-----------------------------------------------------------------------------
(* Invocations side by side: make_temp_secrets_yaml and deploy_helm_chart    *)
(* line by line, one step for each look at a file and each run of a tool,    *)
(* on projects whose secrets are set up and whose charts exist, with the     *)
(* namespace given.                                                          *)

InitConcurrent ==
  /\ keyFile = [p \in Projects |->
                  [exists |-> TRUE, pub |-> IF p = <<"api">> THEN 1 ELSE 2, mode |-> "0600"]]
  /\ sopsConfig = [p \in Projects |-> IF p = <<"api">> THEN 1 ELSE 2]
  /\ secretsFile = [p \in Projects |-> "ciphertext"]
  /\ tmpFiles = {}
  /\ nextKey = 2
  /\ firstSetup = [p \in Projects |-> IF p = <<"api">> THEN 1 ELSE 2]
  /\ op = NoOp
  /\ procs = [i \in ProcIds |-> IdleProc]

\* Process i is at proc, and the files under /tmp are tmp.
Step(i, proc, tmp) ==
  /\ procs' = [procs EXCEPT ![i] = proc]
  /\ tmpFiles' = tmp
  /\ UNCHANGED <<keyFile, sopsConfig, secretsFile, nextKey, firstSetup, op>>

\* An invocation starts.
ProcBegin(i) ==
  /\ procs[i].pc = "idle"
  /\ \E fn \in {"make_temp_secrets_yaml", "deploy_helm_chart"}, project \in Projects :
     \E environment \in IF fn = "deploy_helm_chart" THEN Environments ELSE {None} :
       Step(i, [IdleProc EXCEPT !.fn = fn, !.project = project, !.env = environment,
                                !.pc = IF fn = "deploy_helm_chart" THEN "validate"
                                       ELSE "mt:check"],
            tmpFiles)

\* make_temp_secrets_yaml, a line at a time; it returns to the command that
\* called it, or into deploy_helm_chart.
MakeTempStep(i) ==
  LET p == procs[i]
      back(ret) == IF p.fn = "deploy_helm_chart"
                   THEN [p EXCEPT !.mt = ret, !.pc = "found"]
                   ELSE [p EXCEPT !.ret = ret, !.pc = "return"]
      output_file == TempOutputFile(p.project)
  IN
  CASE p.pc = "mt:check" ->
         IF secretsFile[p.project] = "absent" \/ ~keyFile[p.project].exists
         THEN Step(i, back("False"), tmpFiles)
         ELSE Step(i, [p EXCEPT !.pc = "mt:decrypt"], tmpFiles)
    [] p.pc = "mt:decrypt" ->
         \E dec \in DecryptOutcomes :
           IF dec = "ok" THEN Step(i, [p EXCEPT !.pc = "mt:write"], tmpFiles)
           ELSE Step(i, [back("False") EXCEPT !.failed = TRUE], tmpFiles)
    [] p.pc = "mt:write" ->
         \E wr \in TmpWriteOutcomes :
           CASE wr = "ok" ->
                  Step(i, [back("True") EXCEPT !.written = @ \cup {output_file}],
                       tmpFiles \cup {output_file})
             [] wr = "partial" ->
                  Step(i, [back("False") EXCEPT !.written = @ \cup {output_file},
                                               !.failed = TRUE],
                       tmpFiles \cup {output_file})
             [] OTHER -> Step(i, [back("False") EXCEPT !.failed = TRUE], tmpFiles)
    [] OTHER -> FALSE

\* deploy_helm_chart, a line at a time.
DeployStep(i) ==
  LET p == procs[i]
      secrets_file == DeploySecretsFile(p.project, p.env)
  IN
  /\ p.fn = "deploy_helm_chart"
  /\ CASE p.pc = "validate" ->
            Step(i, [p EXCEPT !.pc = "layers", !.layers = <<BaseValues(p.project)>>], tmpFiles)
       [] p.pc = "layers" ->
            IF ~Truthy(p.env) THEN Step(i, [p EXCEPT !.pc = "helm"], tmpFiles)
            ELSE
              LET withEnv == [p EXCEPT !.layers = Append(@, EnvValues(p.project, p.env))] IN
              IF ~Binds("make_temp_secrets_yaml", {"project", "environment"})
              THEN Step(i, [withEnv EXCEPT !.ret = "raised", !.exc = "TypeError",
                                          !.pc = "return"], tmpFiles)
              ELSE Step(i, [withEnv EXCEPT !.pc = "mt:check"], tmpFiles)
       [] p.pc = "found" ->
            IF p.mt = "True" /\ secrets_file \in tmpFiles
            THEN Step(i, [p EXCEPT !.layers = Append(@, secrets_file), !.pc = "helm"], tmpFiles)
            ELSE Step(i, [p EXCEPT !.pc = "helm"], tmpFiles)
       [] p.pc = "helm" ->
            \E helm \in ToolOutcomes :
              Step(i, [p EXCEPT !.handed = {p.layers[k] : k \in 1..Len(p.layers)}
                                           \cap {secrets_file},
                                !.missing = ({p.layers[k] : k \in 1..Len(p.layers)}
                                              \cap {secrets_file}) \ tmpFiles,
                                !.failed = @ \/ helm # "ok",
                                !.ret = IF helm = "ok" THEN "True" ELSE "False",
                                !.pc = IF helm = "missing" THEN "return" ELSE "cleanup"],
                   tmpFiles)
       [] p.pc = "cleanup" ->
            IF Truthy(p.env) /\ secrets_file \in tmpFiles
            THEN \E unl \in WriteOutcomes :
                   IF unl = "ok"
                   THEN Step(i, [p EXCEPT !.deleted = @ \cup {secrets_file}, !.pc = "return"],
                             tmpFiles \ {secrets_file})
                   ELSE Step(i, [p EXCEPT !.failed = TRUE, !.pc = "return"], tmpFiles)
            ELSE Step(i, [p EXCEPT !.pc = "return"], tmpFiles)
       [] OTHER -> FALSE

\* The invocation returns, or its exception ends it.
ProcReturn(i) ==
  /\ procs[i].pc = "return"
  /\ Step(i, IdleProc, tmpFiles)

NextConcurrent ==
  \E i \in ProcIds :
    \/ ProcBegin(i)
    \/ MakeTempStep(i)
    \/ DeployStep(i)
    \/ ProcReturn(i)

SpecConcurrent == InitConcurrent /\ [][NextConcurrent]_vars

-----------------------------------------------------------------------------
(* Two deploys under the one schedule in which the second runs from its      *)
(* start to its end while the first stands between its last look at the      *)
(* secrets file and its run of helm.                                         *)

\* The invocation has put the secrets file among its -f files and has not
\* run helm yet.
Paused(p) ==
  /\ p.pc = "helm"
  /\ \E k \in 1..Len(p.layers) : p.layers[k] = DeploySecretsFile(p.project, p.env)

\* Whose turn it is once both deploys have started: the first runs until it
\* is paused and again when the second has ended; the second runs while the
\* first is paused, or after it has ended.
Turn(i) ==
  /\ procs[1].pc # "idle" /\ procs[2].pc # "idle"
  /\ IF i = 1 THEN ~Paused(procs[1]) \/ procs[2].pc = "ended"
     ELSE Paused(procs[1]) \/ procs[1].pc = "ended"

RaceBegin(i) ==
  /\ procs[i].pc = "idle"
  /\ \E project \in Projects, environment \in Environments :
       Step(i, [IdleProc EXCEPT !.fn = "deploy_helm_chart", !.project = project,
                                !.env = environment, !.pc = "validate"],
            tmpFiles)

RaceStep(i) ==
  /\ Turn(i)
  /\ IF procs[i].pc \in {"mt:check", "mt:decrypt", "mt:write"}
     THEN MakeTempStep(i) ELSE DeployStep(i)

RaceEnd(i) ==
  /\ Turn(i)
  /\ procs[i].pc = "return"
  /\ Step(i, [procs[i] EXCEPT !.pc = "ended"], tmpFiles)

NextRace == \E i \in {1, 2} : RaceBegin(i) \/ RaceStep(i) \/ RaceEnd(i)

\* Each deploy is a sequential program whose subprocess calls return: while
\* a step can be taken, one is.
SpecRace == InitConcurrent /\ [][NextRace]_vars /\ WF_vars(NextRace)

-----------------------------------------------------------------------------
(* What the specification says, in its own terms *)

\* The ephemeral artifact of a scope: /tmp/<project>[-<env>]-secret-values.yaml
ArtifactPath(project, environment) ==
  <<"/tmp/">> \o project
  \o (IF Truthy(environment) THEN <<"-">> \o environment ELSE <<>>)
  \o <<"-", "secret-values.yaml">>

\* The release identifier of a scope: project, or project-environment.
ReleaseIdentifier(project, environment) ==
  IF Truthy(environment) THEN project \o <<"-">> \o environment ELSE project

\* The text of a kubectl answer without its blanks.
NonBlank(s) == SelectSeq(s, LAMBDA t : t \notin Whitespace)

IsDeploy == op.name = "ez k8s deploy"
IsUndeploy == op.name = "ez k8s undeploy"
IsCli == op.exit # -1

\* The store of the operation's project was usable when the operation began.
StoreReady == op.pre.key.exists /\ op.pre.sec = "ciphertext"

\* Every "error" after the helm run comes after an unlink of the artifact.
UnlinkBeforeReport(ev) ==
  \A j \in 1..Len(ev) :
    (ev[j] = "error" /\ \E h \in 1..(j - 1) : ev[h] = "run:helm-upgrade")
      => \E i \in 1..(j - 1) : ev[i] = "unlink:tmp"

-----------------------------------------------------------------------------
(* The claims *)

\* C1: after a deploy that was given an environment, found its chart and
\* resolved its namespace, however it ends, no file exists at the scope's
\* ephemeral artifact path.
C1_NoArtifactAfterDeploy ==
  (IsDeploy /\ Truthy(op.env) /\ op.helm # "none")
    => ArtifactPath(op.project, op.env) \notin tmpFiles

\* C2: a deploy with an environment whose store can be materialized and
\* whose helm run fails returns failure, and where it handed the artifact to
\* helm it has unlinked it before it reports the failure.
C2_CleanupBeforeFailureReport ==
  (IsDeploy /\ Truthy(op.env) /\ StoreReady /\ op.helm = "fail")
    => /\ op.ret = "False"
       /\ ArtifactPath(op.project, op.env) \notin tmpFiles
       /\ (op.layers # <<>> /\ op.layers[Len(op.layers)] = ArtifactPath(op.project, op.env))
            => UnlinkBeforeReport(op.ev)

\* C3: every CLI command with a scope runs its operation and exits 0 exactly
\* when the operation returns success, 1 when it returns failure; a deploy
\* with an environment whose chart and store are present and whose helm run
\* succeeds reaches helm and exits 0.
C3_CliExitMatchesOperation ==
  IsCli =>
    /\ op.exc = "none"
    /\ op.ret \in {"True", "False"}
    /\ op.exit = (IF op.ret = "True" THEN 0 ELSE 1)
    /\ (IsDeploy /\ Truthy(op.env) /\ StoreReady /\ op.helm = "ok")
         => (Has(op.ev, "run:helm-upgrade") /\ op.exit = 0)

\* C4: a deploy with an environment whose base values, environment values and
\* secrets store all exist hands helm exactly [base, environment, secrets].
C4_LayerOrder ==
  (IsDeploy /\ Truthy(op.env) /\ op.helm # "none" /\ op.files.base
     /\ op.files.envValues /\ StoreReady)
    => /\ op.cmd # NoCmd
       /\ op.cmd.layers = <<BaseValues(op.project), EnvValues(op.project, op.env),
                            ArtifactPath(op.project, op.env)>>

\* C5: when create_initial_secrets_file returns failure after it wrote the
\* plaintext scaffold, the secrets file no longer exists.
C5_NoPlaintextAfterFailedInit ==
  (op.name = "create_initial_secrets_file" /\ op.ret = "False"
     /\ Has(op.ev, "write:secrets"))
    => secretsFile[op.project] = "absent"

\* C6: whenever an initialization (create_initial_secrets_file, or
\* setup_secrets) returns success, the secrets file on disk is ciphertext.
C6_CiphertextAfterSuccessfulInit ==
  (op.name \in {"create_initial_secrets_file", "setup_secrets"} /\ op.ret = "True")
    => secretsFile[op.project] = "ciphertext"

\* No event of the operation wrote, created or removed a file.
NoWrite(ev) ==
  \A i \in 1..Len(ev) :
    ev[i] \notin {"write:key", "chmod:key", "write:policy", "write:secrets",
                  "unlink:secrets", "write:tmp", "unlink:tmp"}

\* The operation is a setup_secrets on a project where an earlier
\* setup_secrets returned success.
IsSecondSetup == op.name = "setup_secrets" /\ op.pre.first # 0

\* What the second setup_secrets must be: nothing written, neither tool
\* run, no error, the first run's public key.
Idempotent ==
  /\ op.ret = "True"
  /\ op.pub = op.pre.first
  /\ Snapshot(op.project) = op.pre
  /\ NoWrite(op.ev)
  /\ ~Has(op.ev, "run:age-keygen")
  /\ ~Has(op.ev, "run:sops-encrypt")
  /\ ~Has(op.ev, "error")

C8_ExistingKeyNeverRegenerated ==
  (op.name = "generate_age_key" /\ op.pre.key.exists)
    => /\ ~Has(op.ev, "run:age-keygen")
       /\ keyFile[op.project] = op.pre.key
       /\ (op.pre.key.pub = 0 => op.ret = "None")

\* C9: deploy and undeploy derive the release identifier of the scope, project
\* or project-environment, and it is the release name on the helm command.
C9_ReleaseIdentifier ==
  (IsDeploy \/ IsUndeploy) =>
    /\ (op.namespace # None => op.release = ReleaseIdentifier(op.project, op.env))
    /\ (op.cmd # NoCmd => op.cmd.release = ReleaseIdentifier(op.project, op.env))

C9_Witness ==
  /\ IsUndeploy /\ op.env = <<"prod">> /\ op.project = <<"api">>
  /\ op.cmd.verb = "uninstall" /\ op.cmd.release = <<"api", "-", "prod">>

\* C10: a namespace given is used as it is and kubectl is not asked; with
\* none given, kubectl's answer is the namespace when it is not empty, and
\* the namespace is "default" when it is empty.
C10_NamespaceResolution ==
  (IsDeploy \/ IsUndeploy) =>
    /\ op.nsArg # None =>
         /\ ~Has(op.ev, "run:kubectl")
         /\ (IsUndeploy \/ op.files.chart) => op.namespace = op.nsArg
    /\ (op.nsArg = None /\ op.kout # None) =>
         op.namespace = (IF NonBlank(op.kout) = <<>> THEN <<"default">>
                         ELSE NonBlank(op.kout))
    /\ op.cmd # NoCmd => op.cmd.namespace = op.namespace

C10_Witness ==
  /\ IsDeploy /\ op.nsArg = None /\ op.kout = <<>>
  /\ op.cmd.verb = "upgrade --install" /\ op.cmd.namespace = <<"default">>

\* How many times the operation did x.
Count(ev, x) == Cardinality({i \in 1..Len(ev) : ev[i] = x})

\* The operation ran sops.
RanSops(ev) ==
  \E i \in 1..Len(ev) :
    ev[i] \in {"run:sops-encrypt", "run:sops-decrypt", "run:sops-decrypt-json",
               "run:sops-edit"}

\* The operation left every file as it found it.
FilesUntouched ==
  /\ NoWrite(op.ev)
  /\ Snapshot(op.project) = op.pre
  /\ tmpFiles = op.tmpBefore

\* C11: with no namespace given, when the kubectl query fails, by a non-zero
\* exit or because kubectl cannot be started, deploy (past its chart check)
\* and undeploy take the namespace "default" and go on to run helm.
C11_ContextFailureFallsBack ==
  ((IsUndeploy \/ (IsDeploy /\ op.files.chart))
     /\ op.nsArg = None /\ op.kc \in {"fail", "missing"})
    => /\ op.namespace = <<"default">>
       /\ op.cmd # NoCmd
       /\ op.cmd.namespace = <<"default">>

\* C12: a deploy with an environment whose secrets cannot be materialized
\* (the store or the key is missing) still runs helm, with layers that lack
\* the secrets layer, and returns what helm's exit status says.
C12_MaterializeFailureNotFatal ==
  (IsDeploy /\ Truthy(op.env) /\ op.files.chart /\ op.helm # "none" /\ ~StoreReady)
    => /\ op.cmd # NoCmd
       /\ \A i \in 1..Len(op.cmd.layers) :
            op.cmd.layers[i] # ArtifactPath(op.project, op.env)
       /\ op.ret = (IF op.helm = "ok" THEN "True" ELSE "False")

\* The component-level operations; deploy_helm_chart and undeploy_helm_chart
\* are the ones the k8s commands call with the keywords they declare.
ComponentOperations ==
  {"generate_age_key", "create_sops_config", "create_initial_secrets_file",
   "setup_secrets", "edit_secrets", "decrypt_secrets", "make_temp_secrets_yaml",
   "ez k8s deploy", "ez k8s undeploy"}

\* C13: every component-level operation ends by returning a value, whatever
\* the tools it runs do; none ends by an exception left uncaught.
C13_NoUncaughtException ==
  op.name \in ComponentOperations
    => (op.exc = "none" /\ op.ret \in {"True", "False", "None", "key"})

\* C14: edit_secrets, decrypt_secrets and make_temp_secrets_yaml return
\* failure, without running sops and without creating or changing a file,
\* whenever the key file or the secrets file does not exist.
C14_NotInitializedFailsCleanly ==
  (op.name \in {"edit_secrets", "decrypt_secrets", "make_temp_secrets_yaml"}
     /\ (~op.pre.key.exists \/ op.pre.sec = "absent"))
    => /\ op.ret = "False"
       /\ op.exc = "none"
       /\ ~RanSops(op.ev)
       /\ op.out = <<>>
       /\ FilesUntouched

C14_Witness ==
  /\ op.name = "make_temp_secrets_yaml"
  /\ op.pre.sec = "ciphertext" /\ ~op.pre.key.exists
  /\ op.ret = "False" /\ op.ev = <<"error">>

\* C15: undeploy runs "helm uninstall" exactly once, with the scope's release
\* identifier and the resolved namespace and no values file; it neither
\* runs sops nor touches a file under /tmp, and returns success exactly when
\* the uninstall exits zero.
C15_UndeployUninstallsOnce ==
  IsUndeploy
    => /\ Count(op.ev, "run:helm-uninstall") = 1
       /\ op.cmd = HelmCmd("uninstall", ReleaseIdentifier(op.project, op.env),
                           op.namespace, <<>>)
       /\ op.namespace # None
       /\ ~RanSops(op.ev)
       /\ FilesUntouched
       /\ (op.ret = "True") <=> (op.helm = "ok")

\* C16: when the helm directory or its Chart.yaml does not exist, deploy
\* returns failure without asking kubectl, without running sops or helm and
\* without creating or removing a file.
C16_MissingChartFailsEarly ==
  (IsDeploy /\ (~op.files.helmDir \/ ~op.files.chart))
    => /\ op.ret = "False"
       /\ op.exc = "none"
       /\ ~Has(op.ev, "run:kubectl")
       /\ ~RanSops(op.ev)
       /\ ~Has(op.ev, "run:helm-upgrade")
       /\ op.cmd = NoCmd
       /\ FilesUntouched

C16_Witness ==
  /\ IsDeploy /\ op.files.helmDir /\ ~op.files.chart
  /\ op.env = <<"prod">> /\ op.nsArg = None
  /\ op.ret = "False" /\ op.ev = <<"error">>

\* The leaves of a document in its key order, each with the keys on the way
\* to it.
RECURSIVE LeavesOf(_, _)
LeavesOf(d, path) ==
  IF d = <<>> THEN <<>>
  ELSE LET e == Head(d)
       IN (IF e.leaf THEN <<[path |-> Append(path, e.k), v |-> e.v]>>
           ELSE LeavesOf(e.sub, Append(path, e.k)))
          \o LeavesOf(Tail(d), path)

\* The keys of a path joined by a separator.
RECURSIVE JoinPath(_, _)
JoinPath(path, sep) ==
  IF Len(path) = 1 THEN path[1]
  ELSE path[1] \o <<sep>> \o JoinPath(Tail(path), sep)

\* The upper-case letters of the key tokens, as the specification names them.
EnvName(path) ==
  LET upper == [t \in {"database", "username", "password", "token", "a", "b", "c", "_"} |->
                  CASE t = "database" -> "DATABASE" [] t = "username" -> "USERNAME"
                    [] t = "password" -> "PASSWORD" [] t = "token" -> "TOKEN"
                    [] t = "a" -> "A" [] t = "b" -> "B" [] t = "c" -> "C" [] OTHER -> "_"]
      joined == JoinPath(path, "_")
  IN [i \in 1..Len(joined) |-> upper[joined[i]]]

\* One line export NAME='value' per leaf, in the document's order.
ExportLines(doc) ==
  LET leaves == LeavesOf(doc, <<>>)
  IN [i \in 1..Len(leaves) |->
        [kind |-> "export", name |-> EnvName(leaves[i].path), value |-> leaves[i].v]]

\* No two leaves of the document flatten to the same name.
NoCollision(doc) ==
  LET leaves == LeavesOf(doc, <<>>)
  IN \A i, j \in 1..Len(leaves) :
       EnvName(leaves[i].path) = EnvName(leaves[j].path) => i = j

\* decrypt_secrets in the env format without a key, on a store that decrypts
\* and parses.
IsEnvDump ==
  /\ op.name = "decrypt_secrets" /\ op.fmt = "env" /\ ~Truthy(op.key)
  /\ op.tool = "ok"

\* C18 (as stated): in the env format without a key, decrypt_secrets prints
\* one line export NAME='value' per leaf of the document, NAME the leaf's key
\* path joined by underscores and upper-cased, in the document's key order.
C18_OneExportPerLeaf == IsEnvDump => (op.ret = "True" /\ op.out = ExportLines(op.doc))

\* C18 (amended): the same, for a document of which no two leaves flatten to
\* the same name.
C18_OneExportPerDistinctLeaf ==
  (IsEnvDump /\ NoCollision(op.doc)) => (op.ret = "True" /\ op.out = ExportLines(op.doc))

C18_Witness ==
  /\ IsEnvDump
  /\ op.doc = <<Nested(<<"database">>,
                       <<Leaf(<<"username">>, "u"), Leaf(<<"password">>, "p")>>)>>
  /\ op.out = <<[kind |-> "export", name |-> <<"DATABASE", "_", "USERNAME">>, value |-> "u"],
                [kind |-> "export", name |-> <<"DATABASE", "_", "PASSWORD">>, value |-> "p"]>>

\* The leaves that a requested key names: by its dotted path, or by its path
\* joined flat.
LeavesNamed(doc, key) ==
  LET leaves == LeavesOf(doc, <<>>)
  IN {i \in 1..Len(leaves) :
        JoinPath(leaves[i].path, ".") = key \/ JoinPath(leaves[i].path, "_") = key}

\* C19: decrypt_secrets with a requested key, on a store that decrypts,
\* returns failure when the key is absent from the document, in every
\* format; when the key names a leaf, top-level or nested, it prints that
\* one scalar and returns success.
C19_RequestedKey ==
  (op.name = "decrypt_secrets" /\ Truthy(op.key) /\ op.tool = "ok")
    => LET named == LeavesNamed(op.doc, op.key)
           leaves == LeavesOf(op.doc, <<>>)
       IN IF named = {}
          THEN op.ret = "False"
          ELSE /\ op.ret = "True"
               /\ \E i \in named :
                    op.out = <<[kind |-> "value", name |-> <<>>, value |-> leaves[i].v]>>

\* C20: a key file that generate_age_key created has mode 0600 in every
\* state after generate_age_key returned, also when it returned None because
\* the file has no public-key line.
C20_KeyFileOwnerOnly ==
  \A p \in Projects : keyFile[p].exists => keyFile[p].mode = "0600"

C20_Witness ==
  /\ op.name = "generate_age_key" /\ op.ret = "None"
  /\ Has(op.ev, "write:key") /\ ~op.pre.key.exists
  /\ keyFile[op.project].exists /\ keyFile[op.project].pub = 0
  /\ keyFile[op.project].mode = "0600"

\* Two scopes are the same when their projects are and their environments
\* are, no environment being one environment.
SameScope(p, q) ==
  /\ p.project = q.project
  /\ (IF Truthy(p.env) THEN p.env ELSE None) = (IF Truthy(q.env) THEN q.env ELSE None)

\* The files under /tmp that an invocation wrote, handed to helm or unlinked.
Touched(p) == p.written \cup p.handed \cup p.deleted

\* C17: two invocations of deploy or make_temp_secrets_yaml that run at the
\* same time on different scopes never write, hand to helm or unlink the same
\* file under /tmp.
C17_DifferentScopesNeverCollide ==
  \A i, j \in ProcIds :
    (i # j /\ procs[i].pc # "idle" /\ procs[j].pc # "idle"
       /\ ~SameScope(procs[i], procs[j]))
      => Touched(procs[i]) \cap Touched(procs[j]) = {}

C17_Witness ==
  /\ procs[1].pc # "idle" /\ procs[2].pc # "idle"
  /\ procs[1].project # procs[2].project
  /\ procs[1].written # {} /\ procs[2].written # {}

\* C21: for a project and an environment, the file that
\* make_temp_secrets_yaml writes is the file that deploy_helm_chart looks
\* for, hands to helm and unlinks: /tmp/<project>-<env>-secret-values.yaml.
C21_OneArtifactPath ==
  (op.name = "make_temp_secrets_yaml" /\ Has(op.ev, "write:tmp"))
    => \A environment \in Environments :
         Truthy(environment)
           => /\ TempOutputFile(op.project) = DeploySecretsFile(op.project, environment)
              /\ DeploySecretsFile(op.project, environment)
                   = ArtifactPath(op.project, environment)
              /\ DeploySecretsFile(op.project, environment) \in tmpFiles

\* C23: the result of a deploy that found its chart and resolved its
\* namespace is helm's: True exactly when helm exits zero, False otherwise,
\* whatever the unlink of the artifact does; it never ends by an exception.
C23_ResultIsHelmResult ==
  (IsDeploy /\ op.files.chart /\ op.helm # "none")
    => /\ op.exc = "none"
       /\ op.ret = (IF op.helm = "ok" THEN "True" ELSE "False")

\* C24: a deploy without an environment does not run sops, hands helm no
\* environment values and no secrets file, and leaves the files under /tmp
\* as they are.
C24_NoEnvironmentNoMaterialization ==
  (IsDeploy /\ ~Truthy(op.env))
    => /\ ~RanSops(op.ev)
       /\ ~Has(op.ev, "chdir")
       /\ \A i \in 1..Len(op.layers) : op.layers[i] = BaseValues(op.project)
       /\ op.cmd # NoCmd => op.cmd.layers = op.layers
       /\ ~Has(op.ev, "write:tmp") /\ ~Has(op.ev, "unlink:tmp")
       /\ tmpFiles = op.tmpBefore

C24_Witness ==
  /\ IsDeploy /\ op.env = None /\ op.ret = "True"
  /\ op.files.envValues
  /\ op.cmd.layers = <<BaseValues(op.project)>>
  /\ ArtifactPath(op.project, op.env) \in tmpFiles

\* C25: a deploy with an environment whose values file does not exist skips
\* that layer and goes on to run helm; its result is helm's.
C25_MissingEnvironmentValuesSkipped ==
  (IsDeploy /\ Truthy(op.env) /\ op.files.chart /\ op.helm # "none"
     /\ ~op.files.envValues)
    => /\ op.cmd # NoCmd
       /\ \A i \in 1..Len(op.cmd.layers) :
            op.cmd.layers[i] # EnvValues(op.project, op.env)
       /\ op.ret = (IF op.helm = "ok" THEN "True" ELSE "False")

\* C26: when the policy file exists, create_sops_config leaves it as it is
\* and returns True, whatever public key it is given.
C26_ExistingPolicyUntouched ==
  (op.name = "create_sops_config" /\ op.pre.cfg # 0)
    => /\ op.ret = "True"
       /\ sopsConfig[op.project] = op.pre.cfg
       /\ FilesUntouched

C26_Witness ==
  /\ op.name = "create_sops_config" /\ op.pre.cfg # 0
  /\ op.pub # op.pre.cfg /\ op.ret = "True"

\* The step of setup_secrets that an event belongs to: 1 the dependency
\* check, 2 the key, 3 the policy, 4 the store; 0 for a report.
SetupStep(e) ==
  CASE e \in {"run:sops-version", "run:age-version", "info:deps-ok"} -> 1
    [] e \in {"read:key", "run:age-keygen", "write:key", "chmod:key", "warn:backup"} -> 2
    [] e = "write:policy" -> 3
    [] e \in {"write:secrets", "run:sops-encrypt", "unlink:secrets"} -> 4
    [] OTHER -> 0

\* C27: in a setup_secrets, sops encrypts only once the key file and the
\* policy file exist; the steps run in the order dependency check, key,
\* policy, store; after a step failed no later step runs, and the setup does
\* not return True.
C27_SetupOrder ==
  op.name = "setup_secrets" =>
    LET ev == op.ev IN
    /\ ev # <<>> /\ ev[1] = "run:sops-version"
    /\ \A j \in 1..Len(ev) :
         ev[j] = "run:sops-encrypt"
           => /\ op.pre.key.exists \/ \E i \in 1..(j - 1) : ev[i] = "write:key"
              /\ op.pre.cfg # 0 \/ \E i \in 1..(j - 1) : ev[i] = "write:policy"
    /\ \A i, j \in 1..Len(ev) :
         (i < j /\ SetupStep(ev[i]) # 0 /\ SetupStep(ev[j]) # 0)
           => SetupStep(ev[i]) <= SetupStep(ev[j])
    /\ \A j \in 1..Len(ev) :
         ev[j] = "error"
           => /\ op.ret # "True"
              /\ \A k \in (j + 1)..Len(ev) : ev[k] \in {"error", "unlink:secrets"}

C27_Witness ==
  /\ op.name = "setup_secrets" /\ op.ret = "True"
  /\ ~op.pre.key.exists /\ op.pre.cfg = 0
  /\ Has(op.ev, "write:key") /\ Has(op.ev, "write:policy") /\ Has(op.ev, "run:sops-encrypt")

\* How many times the operation told the operator to back up the key.
BackupInstructions(ev) == Count(ev, "warn:backup") + Count(ev, "echo:backup-step")

\* C28: an invocation of generate_age_key or setup_secrets tells the
\* operator to back up the key once when it generates the key, and not at
\* all when it finds the key file present.
C28_BackupInstructionOnce ==
  op.name \in {"generate_age_key", "setup_secrets"}
    => /\ op.pre.key.exists => BackupInstructions(op.ev) = 0
       /\ BackupInstructions(op.ev) = (IF Has(op.ev, "write:key") THEN 1 ELSE 0)

\* The working directory after the operation: os.chdir(base_dir.parent) leaves
\* original_dir, os.chdir(original_dir) comes back to it.
RECURSIVE WorkingDirectory(_, _)
WorkingDirectory(ev, dir) ==
  IF ev = <<>> THEN dir
  ELSE WorkingDirectory(Tail(ev),
                        CASE Head(ev) = "chdir" -> "base_dir.parent"
                          [] Head(ev) = "chdir:back" -> "original_dir"
                          [] OTHER -> dir)

\* C30: a deploy ends in the working directory it started in, also when the
\* materialization raises.
C30_WorkingDirectoryRestored ==
  IsDeploy => WorkingDirectory(op.ev, "original_dir") = "original_dir"

C30_Witness ==
  /\ IsDeploy /\ Truthy(op.env) /\ op.exc = "TypeError"
  /\ Has(op.ev, "chdir")
  /\ WorkingDirectory(op.ev, "original_dir") = "original_dir"

\* C29: when make_temp_secrets_yaml returns failure it has neither created
\* nor written the file of its scope under /tmp; when it returns success the
\* file exists and the operation has not unlinked it.
C29_ArtifactOnlyOnSuccess ==
  op.name = "make_temp_secrets_yaml"
    => /\ op.ret = "False"
            => (tmpFiles = op.tmpBefore /\ ~Has(op.ev, "write:tmp"))
       /\ op.ret = "True"
            => (ArtifactPath(op.project, None) \in tmpFiles /\ ~Has(op.ev, "unlink:tmp"))

\* Two deploys have started on the same scope, one with an environment.
RaceSetup ==
  /\ procs[1].pc = "validate" /\ procs[2].pc = "validate"
  /\ procs[1].project = procs[2].project
  /\ procs[1].env = procs[2].env /\ Truthy(procs[1].env)

\* helm has been run with a secrets file that did not exist.
Raced == \E i \in {1, 2} : procs[i].missing # {}

\* A tool that one of the two deploys ran has failed.
ToolFailed == \E i \in {1, 2} : procs[i].failed

\* C22: two deploys on the same scope can interleave so that one unlinks the
\* secrets file after the other has put it among its -f files and before
\* that other runs helm: under that schedule, unless a tool fails, helm is
\* run with a secrets file that does not exist.
C22_SameScopeDeploysRace == RaceSetup ~> (Raced \/ ToolFailed)

====
